---- MODULE Spec2Model ----
(***************************************************************************)
(* tokio-timeit-middleware: the Timeit service decorator and the EndTimeit *)
(* future it returns (src/src/lib.rs).                                     *)
(*                                                                         *)
(* Timeit::call reads the wall clock, clones the time sink and wraps the   *)
(* downstream future in an EndTimeit.  EndTimeit::poll polls the wrapped   *)
(* future and, when it is Ready, takes the start time, reads the wall      *)
(* clock again and passes end - start to the time sink.                    *)
(*                                                                         *)
(* The downstream service and its futures are generic parameters of the    *)
(* code: what they answer to a poll is drawn from Responses at every poll. *)
(* time::now() is the wall clock: it moves forward (Tick) and can be set   *)
(* back by the system (ClockStepBack).                                     *)
(***************************************************************************)
EXTENDS Integers, Sequences, FiniteSets

\* ---- bounds of the model ----
MaxCalls == 2
MaxPolls == 3
MaxClock == 1

\* ---- values the generic parameters range over ----
Requests == {"r1", "r2"}
Values == {5, 7}
Errors == {"e1", "e2"}

\* Option<T>
None == <<>>
Some(x) == <<x>>

\* futures::Poll<Item, Error> = Result<Async<Item>, Error>, plus the unwinding
\* outcome of a panic.
NotReady == <<"NotReady">>
Ready(v) == <<"Ready", v>>
Err(e) == <<"Err", e>>
Panic == <<"Panic">>

\* What a downstream future may report on one poll.
Responses == {NotReady} \cup {Ready(v) : v \in Values} \cup {Err(e) : e \in Errors}

\* futures::Async<()> as returned by Service::poll_ready.
ReadyUnit == "Ready"
NotReadyUnit == "NotReady"
Readiness == {ReadyUnit, NotReadyUnit}

VARIABLES
    futures,    \* the EndTimeit values handed out so far, in call order
    sink,       \* the invocations of the time sink, in order
    clock,      \* the wall clock that time::now() reads
    obs,        \* per EndTimeit, what was observed of it (history only)
    sequential, \* every call so far was made after the earlier ones succeeded
    last,       \* the last operation: its inputs and what it returned
    polls       \* the number of polls of EndTimeit values made so far

vars == <<futures, sink, clock, obs, sequential, last, polls>>

\* Timeit::new: the decorator owns one downstream service and one time sink.
timeit == [downstream |-> "S", time_sink |-> "time_sink"]

\* A second decorator stacked on the first: its downstream is timeit, and it
\* has a time sink of its own.
timeit_outer == [downstream |-> timeit, time_sink |-> "outer_time_sink"]

\* ---------------------------------------------------------------------------
\* Timeit as a Service
\* ---------------------------------------------------------------------------

\* What Timeit::call does: the EndTimeit it returns, and the request it hands
\* to the downstream's call (whose future the EndTimeit then owns).
CallResult(handle, request) == [handle |-> handle, downstream_request |-> request]

\* Faulty variant: the start time is a fixed instant, not the time of this call
Timeit_call_epoch_start(self, request, now) ==
    CallResult([start |-> Some(0), time_sink |-> self.time_sink], request)

\* Faulty variant: the start time is not captured
Timeit_call_no_start(self, request, now) ==
    CallResult([start |-> None, time_sink |-> self.time_sink], request)

\* Timeit::call
Timeit_call(self, request, now) ==
    CallResult([start |-> Some(now), time_sink |-> self.time_sink], request)

\* The steps of Timeit::call, in the order the code takes them: the fields of
\* the EndTimeit are evaluated in the order they are written.
Timeit_call_events(self) == <<"time::now", "time_sink.clone", "downstream.call">>

\* Faulty variant: readiness is reported whatever the downstream answers
Timeit_poll_ready_always(self, downstream_ready) == ReadyUnit

\* Timeit::poll_ready
Timeit_poll_ready(self, downstream_ready) == downstream_ready

\* ---------------------------------------------------------------------------
\* EndTimeit as a Future
\* ---------------------------------------------------------------------------

\* end - start (Tm - Tm gives a signed time::Duration)
Elapsed(end, start) == end - start

\* The result of one poll: the EndTimeit afterwards, the value returned (or
\* Panic), and the durations passed to the time sink during the poll.
PollResult(self, ret, recorded) == [self |-> self, ret |-> ret, recorded |-> recorded]

\* Faulty variant: the elapsed time is also reported on a NotReady poll
EndTimeit_poll_eager(self, resp, now) ==
    CASE resp[1] = "NotReady" ->
            IF self.start = None
            THEN PollResult(self, NotReady, <<>>)
            ELSE PollResult(self, NotReady, <<Elapsed(now, self.start[1])>>)
      [] resp[1] = "Err" -> PollResult(self, resp, <<>>)
      [] resp[1] = "Ready" ->
            IF self.start = None
            THEN PollResult(self, Panic, <<>>)
            ELSE PollResult([self EXCEPT !.start = None], resp,
                            <<Elapsed(now, self.start[1])>>)

\* Faulty variant: a failure is timed like a success
EndTimeit_poll_err_timed(self, resp, now) ==
    CASE resp[1] = "NotReady" -> PollResult(self, NotReady, <<>>)
      [] resp[1] \in {"Err", "Ready"} ->
            IF self.start = None
            THEN PollResult(self, Panic, <<>>)
            ELSE PollResult([self EXCEPT !.start = None], resp,
                            <<Elapsed(now, self.start[1])>>)

\* Faulty variant: the start time is read without being taken
EndTimeit_poll_no_take(self, resp, now) ==
    CASE resp[1] = "NotReady" -> PollResult(self, NotReady, <<>>)
      [] resp[1] = "Err" -> PollResult(self, resp, <<>>)
      [] resp[1] = "Ready" ->
            IF self.start = None
            THEN PollResult(self, Panic, <<>>)
            ELSE PollResult(self, resp, <<Elapsed(now, self.start[1])>>)

\* Faulty variant: a NotReady poll restarts the measurement
EndTimeit_poll_restart(self, resp, now) ==
    CASE resp[1] = "NotReady" ->
            IF self.start = None
            THEN PollResult(self, NotReady, <<>>)
            ELSE PollResult([self EXCEPT !.start = Some(now)], NotReady, <<>>)
      [] resp[1] = "Err" -> PollResult(self, resp, <<>>)
      [] resp[1] = "Ready" ->
            IF self.start = None
            THEN PollResult(self, Panic, <<>>)
            ELSE PollResult([self EXCEPT !.start = None], resp,
                            <<Elapsed(now, self.start[1])>>)

\* Faulty variant: a success is returned without a call of the time sink
EndTimeit_poll_unrecorded(self, resp, now) ==
    CASE resp[1] = "NotReady" -> PollResult(self, NotReady, <<>>)
      [] resp[1] = "Err" -> PollResult(self, resp, <<>>)
      [] resp[1] = "Ready" ->
            IF self.start = None
            THEN PollResult(self, Panic, <<>>)
            ELSE PollResult([self EXCEPT !.start = None], resp, <<>>)

\* EndTimeit::poll.  resp is what self.future.poll() returned, now is what
\* time::now() returns if it is read.
EndTimeit_poll(self, resp, now) ==
    CASE resp[1] = "NotReady" -> PollResult(self, NotReady, <<>>)
      [] resp[1] = "Err" -> PollResult(self, resp, <<>>)
      [] resp[1] = "Ready" ->
            IF self.start = None
            THEN \* expect("Should not call poll on EndTimeit more than once")
                 PollResult(self, Panic, <<>>)
            ELSE PollResult([self EXCEPT !.start = None], resp,
                            <<Elapsed(now, self.start[1])>>)

\* Faulty variant: a resolved EndTimeit no longer polls the downstream future
EndTimeit_poll_events_fused(self, resp) ==
    IF self.start = None
    THEN <<"panic">>
    ELSE CASE resp[1] = "NotReady" -> <<"future.poll", "return">>
           [] resp[1] = "Err" -> <<"future.poll", "return">>
           [] resp[1] = "Ready" ->
                <<"future.poll", "start.take", "time::now", "time_sink", "return">>

\* The steps of EndTimeit::poll, in the order the code takes them.
EndTimeit_poll_events(self, resp) ==
    CASE resp[1] = "NotReady" -> <<"future.poll", "return">>
      [] resp[1] = "Err" -> <<"future.poll", "return">>
      [] resp[1] = "Ready" ->
            IF self.start = None
            THEN <<"future.poll", "start.take", "panic">>
            ELSE <<"future.poll", "start.take", "time::now", "time_sink", "return">>

\* Faulty variant: dropping a pending EndTimeit reports the time so far
EndTimeit_drop_records(self, now) ==
    IF self.start = None THEN <<>> ELSE <<Elapsed(now, self.start[1])>>

\* Dropping an EndTimeit: the durations passed to the time sink.  EndTimeit
\* has no Drop impl, so its fields are dropped and nothing else happens.
EndTimeit_drop(self, now) == <<>>

\* What is left in futures of an EndTimeit that was dropped.
Dropped == [start |-> None, time_sink |-> "(dropped)"]

\* ---------------------------------------------------------------------------
\* History kept per EndTimeit (it does not influence the program)
\* ---------------------------------------------------------------------------

\* phase: what the downstream future has reported so far.
\*   "pending"  only NotReady (or nothing) so far
\*   "ok"       the last poll was the first terminal one, and it was Ready
\*   "err"      the last poll was the first terminal one, and it was Err
\*   "post"     polled again after the first terminal outcome
\*   "dropped"  dropped while pending
NextPhase(phase, resp) ==
    IF phase = "pending"
    THEN CASE resp[1] = "NotReady" -> "pending"
           [] resp[1] = "Ready" -> "ok"
           [] resp[1] = "Err" -> "err"
    ELSE "post"

NewObs(now) ==
    [phase |-> "pending",
     waited |-> FALSE,      \* the downstream future has answered NotReady
     taken |-> 0,           \* times the start time went from present to absent
     succeeded |-> FALSE,   \* a poll of it has returned Ready
     callClock |-> now]     \* clock when Timeit::call ran

PollObs(o, resp, self, out) ==
    [o EXCEPT !.phase = NextPhase(@, resp),
              !.waited = @ \/ resp = NotReady,
              !.taken = IF self.start # None /\ out.self.start = None
                        THEN @ + 1 ELSE @,
              !.succeeded = @ \/ out.ret[1] = "Ready"]

\* The history of an EndTimeit that is dropped while pending.
DropObs(o) == [o EXCEPT !.phase = "dropped"]

\* The record of one operation.  op is "none", "call", "poll_ready", "poll"
\* or "drop"; h the EndTimeit concerned (0 for none), resp what the downstream
\* answered (for a call: the request the downstream was given), ret what the
\* operation returned (for a call: the request the caller gave), recorded the
\* durations it passed to the sink, pre the EndTimeit before the operation
\* (for a call and a poll_ready: every EndTimeit and the sink before it),
\* prePhase its phase then, rest the start times and phases of the other
\* EndTimeit values before the operation, events the steps the operation took.
Op(op, h, resp, ret, recorded, pre, prePhase, rest, events) ==
    [op |-> op, h |-> h, resp |-> resp, ret |-> ret, recorded |-> recorded,
     pre |-> pre, prePhase |-> prePhase, rest |-> rest, events |-> events]

\* The start time and the phase of the EndTimeit values other than h.
Others(h) == [g \in (DOMAIN futures) \ {h} |-> <<futures[g].start, obs[g].phase>>]

\* One invocation of the time sink: d is the duration it is given; h (which
\* EndTimeit made it) and at (the clock when it was made) are history only.
SinkEntries(h, recorded, now) ==
    [i \in 1..Len(recorded) |-> [d |-> recorded[i], h |-> h, at |-> now]]

Handles == DOMAIN futures
\* The EndTimeit values that have not been dropped.
Live == {h \in Handles : obs[h].phase # "dropped"}
SinkOf(h) == {i \in DOMAIN sink : sink[i].h = h}
SinkCount(h) == Cardinality(SinkOf(h))

\* ---------------------------------------------------------------------------
\* The state machine
\* ---------------------------------------------------------------------------

Init ==
    /\ futures = <<>>
    /\ sink = <<>>
    /\ clock = 0
    /\ obs = <<>>
    /\ sequential = TRUE
    /\ last = Op("none", 0, None, None, <<>>, None, "pending", <<>>, <<>>)
    /\ polls = 0

\* A caller invokes Timeit::call(request).
Call ==
    /\ Len(futures) < MaxCalls
    /\ \E request \in Requests :
         LET out == Timeit_call(timeit, request, clock) IN
           /\ futures' = Append(futures, out.handle)
           /\ last' = Op("call", Len(futures) + 1, Some(out.downstream_request),
                         Some(request), <<>>, Some(<<futures, sink>>), "pending",
                         <<>>, Timeit_call_events(timeit))
    /\ obs' = Append(obs, NewObs(clock))
    /\ sequential' = (sequential /\ \A h \in Handles : obs[h].phase = "ok")
    /\ UNCHANGED <<sink, clock, polls>>

\* A caller invokes Timeit::poll_ready(); the downstream answers r.
PollReady ==
    /\ \E r \in Readiness :
         last' = Op("poll_ready", 0, Some(r), Some(Timeit_poll_ready(timeit, r)),
                    <<>>, Some(<<futures, sink>>), "pending", <<>>,
                    <<"downstream.poll_ready">>)
    /\ UNCHANGED <<futures, sink, clock, obs, sequential, polls>>

\* Faulty variant: the start time is kept once for all calls, so that taking
\* it for one EndTimeit takes it for the others.
Poll_shared_start ==
    /\ polls < MaxPolls
    /\ polls' = polls + 1
    /\ \E h \in Live, resp \in Responses :
         LET out == EndTimeit_poll(futures[h], resp, clock)
             took == futures[h].start # None /\ out.self.start = None
         IN
           /\ futures' = [g \in DOMAIN futures |->
                            IF g = h THEN out.self
                            ELSE IF took THEN [futures[g] EXCEPT !.start = None]
                            ELSE futures[g]]
           /\ sink' = sink \o SinkEntries(h, out.recorded, clock)
           /\ obs' = [obs EXCEPT ![h] = PollObs(@, resp, futures[h], out)]
           /\ last' = Op("poll", h, Some(resp), Some(out.ret), out.recorded,
                         Some(futures[h]), obs[h].phase, Others(h),
                         EndTimeit_poll_events(futures[h], resp))
    /\ UNCHANGED <<clock, sequential>>

\* A caller polls EndTimeit h; the downstream future answers resp.
Poll ==
    /\ polls < MaxPolls
    /\ polls' = polls + 1
    /\ \E h \in Live, resp \in Responses :
         LET out == EndTimeit_poll(futures[h], resp, clock) IN
           /\ futures' = [futures EXCEPT ![h] = out.self]
           /\ sink' = sink \o SinkEntries(h, out.recorded, clock)
           /\ obs' = [obs EXCEPT ![h] = PollObs(@, resp, futures[h], out)]
           /\ last' = Op("poll", h, Some(resp), Some(out.ret), out.recorded,
                         Some(futures[h]), obs[h].phase, Others(h),
                         EndTimeit_poll_events(futures[h], resp))
    /\ UNCHANGED <<clock, sequential>>

\* The owner of EndTimeit h drops it before it has resolved, abandoning the
\* call.  (An EndTimeit dropped after it resolved is left in futures: nothing
\* of it is observed any more.)
Drop ==
    /\ \E h \in {g \in Live : obs[g].phase = "pending"} :
         LET recorded == EndTimeit_drop(futures[h], clock) IN
           /\ futures' = [futures EXCEPT ![h] = Dropped]
           /\ sink' = sink \o SinkEntries(h, recorded, clock)
           /\ obs' = [obs EXCEPT ![h] = DropObs(@)]
           /\ last' = Op("drop", h, None, None, recorded, None, "pending",
                         Others(h), <<>>)
    /\ UNCHANGED <<clock, sequential, polls>>

\* Time passes.
Tick ==
    /\ clock < MaxClock
    /\ clock' = clock + 1
    /\ UNCHANGED <<futures, sink, obs, sequential, last, polls>>

\* The system sets the wall clock back (time::now() is not monotonic).
ClockStepBack ==
    /\ clock > 0
    /\ \E t \in 0..(clock - 1) : clock' = t
    /\ UNCHANGED <<futures, sink, obs, sequential, last, polls>>

Next == Call \/ PollReady \/ Poll \/ Tick \/ ClockStepBack

Spec == Init /\ [][Next]_vars

\* Calls and polls, with callers also abandoning calls that are pending.
NextDrop == Call \/ Poll \/ Drop \/ Tick \/ ClockStepBack

SpecDrop == Init /\ [][NextDrop]_vars

\* ---------------------------------------------------------------------------
\* Two decorators stacked: timeit_outer wraps timeit wraps the base service.
\* One call is made through timeit_outer.  futures[1] is the outer EndTimeit
\* and futures[2] the inner one, which is the outer one's downstream future.
\* The outer operations are taken in two steps, around the inner operation
\* they contain, and the clock may change in between.
\* ---------------------------------------------------------------------------

\* timeit_outer.call(request) up to its call of the downstream: the start time
\* and the clone of the sink are evaluated (lib.rs:68-69).
StackedCallOuter ==
    /\ futures = <<>>
    /\ \E request \in Requests :
         LET out == Timeit_call(timeit_outer, request, clock) IN
           /\ futures' = <<out.handle>>
           /\ last' = Op("call_outer", 1, Some(out.downstream_request),
                         Some(request), <<>>, Some(<<futures, sink>>), "pending",
                         <<>>, Timeit_call_events(timeit_outer))
    /\ obs' = <<NewObs(clock)>>
    /\ UNCHANGED <<sink, clock, sequential, polls>>

\* self.downstream.call(request) of the outer call (lib.rs:70) is timeit.call.
StackedCallInner ==
    /\ last.op = "call_outer"
    /\ LET out == Timeit_call(timeit_outer.downstream, last.resp[1], clock) IN
         /\ futures' = Append(futures, out.handle)
         /\ last' = Op("call", 2, Some(out.downstream_request), last.ret, <<>>,
                       Some(<<futures, sink>>), "pending", <<>>,
                       Timeit_call_events(timeit_outer.downstream))
    /\ obs' = Append(obs, NewObs(clock))
    /\ UNCHANGED <<sink, clock, sequential, polls>>

\* A poll of the outer EndTimeit begins with self.future.poll() (lib.rs:96),
\* the poll of the inner EndTimeit; the base future answers resp.
StackedPollInner ==
    /\ Len(futures) = 2
    /\ last.op \in {"call", "poll"}
    /\ polls < MaxPolls
    /\ polls' = polls + 1
    /\ \E resp \in Responses :
         LET out == EndTimeit_poll(futures[2], resp, clock) IN
           /\ futures' = [futures EXCEPT ![2] = out.self]
           /\ sink' = sink \o SinkEntries(2, out.recorded, clock)
           /\ obs' = [obs EXCEPT ![2] = PollObs(@, resp, futures[2], out)]
           /\ last' = Op("poll_inner", 2, Some(resp), Some(out.ret), out.recorded,
                         Some(futures[2]), obs[2].phase, Others(2),
                         EndTimeit_poll_events(futures[2], resp))
    /\ UNCHANGED <<clock, sequential>>

\* The rest of the poll of the outer EndTimeit, on what the inner poll
\* returned; a panic of the inner poll unwinds through the outer one.
StackedPollOuter ==
    /\ last.op = "poll_inner"
    /\ LET resp == last.ret[1]
           out == IF resp = Panic
                  THEN PollResult(futures[1], Panic, <<>>)
                  ELSE EndTimeit_poll(futures[1], resp, clock)
       IN
         /\ futures' = [futures EXCEPT ![1] = out.self]
         /\ sink' = sink \o SinkEntries(1, out.recorded, clock)
         /\ obs' = [obs EXCEPT ![1] =
                       IF resp = Panic THEN [@ EXCEPT !.phase = "post"]
                       ELSE PollObs(@, resp, futures[1], out)]
         /\ last' = Op("poll", 1, Some(resp), Some(out.ret), out.recorded,
                       Some(futures[1]), obs[1].phase, Others(1),
                       IF resp = Panic THEN <<"future.poll", "panic">>
                       ELSE EndTimeit_poll_events(futures[1], resp))
    /\ UNCHANGED <<clock, sequential, polls>>

NextStacked ==
    \/ StackedCallOuter \/ StackedCallInner
    \/ StackedPollInner \/ StackedPollOuter
    \/ Tick \/ ClockStepBack

SpecStacked == Init /\ [][NextStacked]_vars

\* ---------------------------------------------------------------------------
\* Properties
\* ---------------------------------------------------------------------------

LastPoll == last.op = "poll"
LastResp == last.resp[1]
LastPre == last.pre[1]
EntryOf(h) == sink[CHOOSE i \in SinkOf(h) : TRUE]

\* C1: while the downstream future has only answered NotReady, each poll of
\* the EndTimeit returns NotReady and the sink has not been invoked for the
\* call; on the poll where the downstream first answers Ready(v) the EndTimeit
\* returns Ready(v), and by then the sink has been invoked exactly once for it.
C1_SuccessAfterNotReady ==
    /\ \A h \in Handles :
         /\ obs[h].phase = "pending" => SinkCount(h) = 0
         /\ obs[h].phase = "ok" => SinkCount(h) = 1
    /\ (LastPoll /\ last.prePhase = "pending") =>
         /\ LastResp = NotReady =>
              last.ret = Some(NotReady) /\ last.recorded = <<>>
         /\ LastResp[1] = "Ready" =>
              last.ret = Some(LastResp) /\ Len(last.recorded) = 1

C1_Witness ==
    /\ LastPoll /\ last.prePhase = "pending"
    /\ LastResp = Ready(7) /\ last.ret = Some(Ready(7))
    /\ obs[last.h].waited
    /\ SinkCount(last.h) = 1

C3_RepollAfterTerminalPanics ==
    (LastPoll /\ last.prePhase # "pending") =>
        last.ret = Some(Panic) /\ last.recorded = <<>>

\* C4: once the start time of an EndTimeit has been taken, every poll of it
\* panics, whatever the downstream future answers.
C4_PollAfterTakePanics ==
    (LastPoll /\ LastPre.start = None) => last.ret = Some(Panic)

\* C5: whatever the downstream future answers, an EndTimeit invokes the sink
\* at most once, and its start time goes from present to absent at most once
\* and never comes back.
C5_AtMostOnce ==
    /\ \A h \in Handles : SinkCount(h) <= 1 /\ obs[h].taken <= 1
    /\ (LastPoll /\ LastPre.start = None) => futures[last.h].start = None

C5_Witness ==
    /\ LastPoll /\ last.prePhase \in {"ok", "post"}
    /\ LastPre.start = None /\ LastResp[1] = "Ready"
    /\ SinkCount(last.h) = 1 /\ obs[last.h].taken = 1

\* C6: a poll on which the downstream future answers NotReady returns
\* NotReady, passes nothing to the sink and leaves the EndTimeit as it was;
\* while the call is pending its start time is still the one captured by call.
C6_NotReadyLeavesHandle ==
    /\ (LastPoll /\ LastResp = NotReady) =>
         /\ last.ret = Some(NotReady)
         /\ last.recorded = <<>>
         /\ futures[last.h] = LastPre
    /\ \A h \in Handles :
         obs[h].phase = "pending" => futures[h].start = Some(obs[h].callClock)

C6_Witness ==
    /\ LastPoll /\ last.prePhase = "pending" /\ LastResp = NotReady
    /\ clock # obs[last.h].callClock
    /\ futures[last.h].start = Some(obs[last.h].callClock)
    /\ sink = <<>>

\* C7: poll_ready returns what the downstream's poll_ready returned, and
\* leaves every EndTimeit and the sink as they were.
C7_PollReadyPassthrough ==
    last.op = "poll_ready" =>
        last.ret = last.resp /\ LastPre = <<futures, sink>>

C7_Witness ==
    /\ last.op = "poll_ready" /\ last.ret = Some(NotReadyUnit)
    /\ \E h \in Handles : obs[h].phase = "pending" /\ obs[h].waited
    /\ \E h \in Handles : obs[h].phase = "ok"

\* C8: when each of the K calls made so far has been polled to its success,
\* the sink has been invoked exactly K times, once per call (in call order
\* when the calls were made one after the other), and the duration a poll
\* passes to the sink is computed from the start time of the polled EndTimeit.
C8_OncePerCall ==
    /\ (\A h \in Handles : obs[h].phase = "ok") =>
         /\ Len(sink) = Len(futures)
         /\ \A h \in Handles : SinkCount(h) = 1
         /\ sequential => \A h \in Handles : sink[h].h = h
    /\ (LastPoll /\ last.recorded # <<>>) =>
         /\ LastPre.start = Some(obs[last.h].callClock)
         /\ last.recorded = <<sink[Len(sink)].at - LastPre.start[1]>>
         /\ sink[Len(sink)].d = last.recorded[1]

C8_Witness ==
    /\ sequential /\ Len(futures) = 2
    /\ \A h \in Handles : obs[h].phase = "ok"
    /\ Len(sink) = 2 /\ sink[1].h = 1 /\ sink[2].h = 2
    /\ sink[1].d # sink[2].d
    /\ obs[2].callClock # obs[1].callClock

\* C9: every duration passed to the sink is non-negative.
C9_NonNegativeDuration ==
    \A i \in DOMAIN sink : sink[i].d >= 0

\* C10: the duration passed to the sink for a call is the clock at the poll
\* that saw the success minus the clock when Timeit::call ran.
C10_MeasuredFromCall ==
    \A i \in DOMAIN sink :
        sink[i].d = sink[i].at - obs[sink[i].h].callClock

C10_Witness ==
    /\ \E h \in Handles :
         /\ obs[h].phase = "ok" /\ ~obs[h].waited
         /\ SinkCount(h) = 1 /\ EntryOf(h).d > 0
    /\ \E h \in Handles :
         /\ obs[h].phase = "ok" /\ obs[h].waited
         /\ SinkCount(h) = 1 /\ EntryOf(h).d > 0

\* Positions of step e in the steps of the last operation.
StepsOf(e) == {i \in DOMAIN last.events : last.events[i] = e}

\* C11: an EndTimeit dropped while pending, after any number of NotReady
\* polls, passes nothing to the sink when it is dropped or later; the sink has
\* never been invoked more often than there are EndTimeit values of which a
\* poll returned Ready.
C11_DropRecordsNothing ==
    /\ \A h \in Handles : obs[h].phase = "dropped" => SinkCount(h) = 0
    /\ last.op = "drop" => last.recorded = <<>>
    /\ Len(sink) <= Cardinality({h \in Handles : obs[h].succeeded})

C11_Witness ==
    /\ Len(futures) = 2
    /\ obs[1].phase = "dropped" /\ obs[1].waited
    /\ clock # obs[1].callClock
    /\ obs[2].phase = "ok" /\ LastPoll /\ last.h = 2
    /\ Len(sink) = 1 /\ sink[1].h = 2

\* C12: a poll of one EndTimeit leaves the start time and the phase of every
\* other EndTimeit as they were, and every EndTimeit of which a poll returned
\* Ready has invoked the sink exactly once, with the clock of that poll minus
\* the clock of its own call.
C12_HandlesIndependent ==
    /\ LastPoll =>
         \A g \in DOMAIN last.rest :
             <<futures[g].start, obs[g].phase>> = last.rest[g]
    /\ \A h \in Handles :
         obs[h].succeeded =>
             /\ SinkCount(h) = 1
             /\ EntryOf(h).d = EntryOf(h).at - obs[h].callClock

C12_Witness ==
    /\ Len(futures) = 2
    /\ LastPoll /\ last.h = 1 /\ LastResp[1] = "Ready" /\ obs[1].waited
    /\ obs[1].phase = "ok" /\ obs[2].phase = "ok"
    /\ last.rest[2] = <<None, "ok">>
    /\ Len(sink) = 2 /\ sink[1].h = 2 /\ sink[2].h = 1
    /\ obs[1].callClock # obs[2].callClock

\* C13: when a poll returns Ready, the sink was invoked within that poll,
\* before the return: the invocation is the last one the sink has received.
C13_RecordedBeforeReady ==
    (LastPoll /\ last.ret[1][1] = "Ready") =>
        /\ \E i \in StepsOf("time_sink") : \A j \in StepsOf("return") : i < j
        /\ Len(last.recorded) = 1
        /\ sink # <<>>
        /\ sink[Len(sink)].h = last.h
        /\ sink[Len(sink)].d = last.recorded[1]

C13_Witness ==
    /\ LastPoll /\ last.ret = Some(Ready(5)) /\ last.h = 2
    /\ ~obs[2].waited
    /\ Len(sink) = 2 /\ sink[1].h = 1 /\ sink[2].h = 2

\* C14: Timeit::call hands the request as it is to the downstream's call,
\* once, polls nothing and leaves the sink alone; it adds one new EndTimeit,
\* pending, with the start time present and the sink of the service, and
\* leaves the EndTimeit values of the earlier calls as they were.
C14_CallMakesFreshHandle ==
    last.op = "call" =>
        /\ last.resp = last.ret
        /\ Cardinality(StepsOf("downstream.call")) = 1
        /\ StepsOf("future.poll") = {} /\ StepsOf("time_sink") = {}
        /\ last.h = Len(futures)
        /\ futures = Append(LastPre[1], futures[last.h])
        /\ sink = LastPre[2]
        /\ futures[last.h].start = Some(obs[last.h].callClock)
        /\ futures[last.h].time_sink = timeit.time_sink
        /\ obs[last.h].phase = "pending"

C14_Witness ==
    /\ last.op = "call" /\ last.h = 2 /\ last.ret = Some("r2")
    /\ obs[1].phase = "ok" /\ Len(sink) = 1
    /\ obs[2].callClock = 1 /\ futures[2].start = Some(1)

\* C15: a poll on which the downstream future answers Err(e) returns it and
\* leaves the EndTimeit as it was: the start time is not taken.
C15_FailureKeepsStart ==
    (LastPoll /\ LastResp[1] = "Err") =>
        /\ last.ret = last.resp
        /\ futures[last.h] = LastPre
        /\ last.prePhase = "pending" => futures[last.h].start # None

C15_Witness ==
    /\ LastPoll /\ last.prePhase = "pending" /\ LastResp = Err("e1")
    /\ ~obs[last.h].waited
    /\ futures[last.h].start = Some(obs[last.h].callClock)
    /\ obs[last.h].taken = 0

\* C16: every poll of an EndTimeit polls the downstream future exactly once,
\* as its first step and before the start time is looked at, also when the
\* EndTimeit has resolved before; what the downstream answers then is passed
\* on.
C16_DownstreamPolledFirst ==
    LastPoll =>
        /\ StepsOf("future.poll") = {1}
        /\ \A i \in StepsOf("start.take") : i > 1
        /\ LastResp[1] \in {"NotReady", "Err"} => last.ret = last.resp

C16_Witness ==
    /\ LastPoll /\ last.prePhase \in {"ok", "post"}
    /\ LastPre.start = None
    /\ LastResp = NotReady /\ last.ret = Some(NotReady)

\* C17: with two decorators stacked, the outer start time is captured before
\* the inner call is made; a poll that sees the base future answer NotReady
\* or Err invokes neither sink; when the call resolves with a success the
\* inner sink and then the outer sink have been invoked, once each.
C17_StackedOrder ==
    /\ last.op = "call_outer" =>
         /\ Len(futures) = 1
         /\ futures[1].start = Some(obs[1].callClock)
    /\ Len(futures) >= 1 => futures[1].time_sink = timeit_outer.time_sink
    /\ Len(futures) = 2 => futures[2].time_sink = timeit.time_sink
    /\ (last.op \in {"poll_inner", "poll"} /\ LastResp[1] \in {"NotReady", "Err"}) =>
         last.recorded = <<>> /\ last.ret = last.resp
    /\ (last.op # "poll_inner" /\ Len(futures) >= 1
          /\ obs[1].phase \in {"pending", "err"}) => sink = <<>>
    /\ (last.op = "poll" /\ obs[1].phase = "ok") =>
         /\ Len(sink) = 2
         /\ sink[1].h = 2 /\ sink[1].d = sink[1].at - obs[2].callClock
         /\ sink[2].h = 1 /\ sink[2].d = sink[2].at - obs[1].callClock
         /\ last.ret = last.resp

C17_Witness ==
    /\ last.op = "poll" /\ obs[1].phase = "ok" /\ obs[1].waited
    /\ last.ret = Some(Ready(7))
    /\ Len(sink) = 2 /\ sink[1].h = 2 /\ sink[2].h = 1
    /\ obs[1].callClock # obs[2].callClock
    /\ sink[1].at # sink[2].at

====
